---------------------------- MODULE Spec2Model ----------------------------
(***************************************************************************)
(* A model of the executable teaching artifacts of the Anyscale Academy    *)
(* notebooks:                                                              *)
(*   - SimpleContextualBandit and the step method of its Exercise 1        *)
(*     (03-Simple-Multi-Armed-Bandit.ipynb),                               *)
(*   - the AsyncActor cells, run_with_pool, nudge_dataset and the          *)
(*     some_task cells of the "Python Multiprocessing with Ray" lesson,    *)
(*   - the grid-search tune.run cell of the Ray Tune lesson.               *)
(* Each artifact has its own specification over the shared variables; the  *)
(* variables of the other artifacts stay at their initial values.          *)
(***************************************************************************)
EXTENDS Integers, Sequences, FiniteSets, TLC

VARIABLES
    \* ---- SimpleContextualBandit and the driver cells that exercise it
    bandit,             \* "absent" before the constructor ran, then "built"
                        \* (or the Exercise 1 class the object was built from)
    action_space,       \* self.action_space: n of Discrete(n)
    observation_space,  \* self.observation_space: the Box, as a record
    current_context,    \* self.current_context: None or Some(c)
    rewards_for_context,\* self.rewards_for_context: context -> list of rewards
    observation,        \* the driver's `observation`: None or Some(array)
    reset_observation,  \* what the latest reset returned: None or Some(array)
    last_action,        \* the argument of the latest step: None or Some(a)
    result,             \* what the latest step returned: None or Some(tuple)
    raised,             \* the exception the latest call raised, or "none"
    last_call,          \* "none", "__init__", "reset" or "step"
    ncalls,             \* number of calls made so far
    episode_steps,      \* steps taken since the latest reset (the loop's i)
    \* ---- the AsyncActor cells: the driver (the notebook) ...
    ray_pc,             \* the driver's position in the cells
    i,                  \* the loop variable of `for i in range(10)`
    ids,                \* the list ids, of object ids
    values,             \* the list values, of awaited results
    awaited,            \* the object id the driver's await waits for, or None
    refs3,              \* the list built by the comprehension over range(12)
    printed_ids,        \* what print(ray.get(ids)) printed, or None
    printed_values,     \* what print(values) printed, or None
    result3,            \* what ray.get returned for the refs of actor3, or None
    \* ---- ... and the actors and the object store of the platform
    max_concurrency,    \* actor handle -> its max_concurrency (created actors)
    queue,              \* actor -> invocations submitted and not yet started
    running,            \* actor -> invocations between 'started' and 'finished'
    started,            \* actor -> indexes whose 'started' line was printed
    finished,           \* actor -> indexes whose 'finished' line was printed
    store,              \* object id -> value, for the finished invocations
    \* ---- run_with_pool
    pool_pc,            \* "idle", "map", "print" or "done"
    pool_n,             \* the argument n of run_with_pool
    pool_task,          \* index -> its status and the worker it went to (or 0)
    pool_slot,          \* index -> the result f returned for it, or None
    pool_completed,     \* the indexes in the order their results arrived
    map_result,         \* the list pool.map returned
    printed,            \* the results printed so far, in print order
    \* ---- nudge_dataset
    nudge_pc,           \* "load", "loaded", "returned" or "raised"
    X,                  \* the argument X: a list of images of 64 pixels
    Y,                  \* the argument Y: a list of labels
    nudged_X,           \* the first returned array
    nudged_Y,           \* the second returned array
    \* ---- the Ray connection of the driver, and the some_task cells
    ray_connected,      \* worker.connected: is the driver connected to Ray
    ray_sessions,       \* number of connections made so far
    ray_ops,            \* number of driver cells run so far
    ray_raised,         \* the exception the latest cell raised, or "none"
    ray_last_cell,      \* the cell run latest: "none", "ray.init", ...
    task_pc,            \* "idle", "waiting" (in ray.wait) or "awaiting"
    task_ref,           \* the object id the driver waits for, or None
    tasks_submitted,    \* number of some_task invocations submitted
    task_pending,       \* object ids of invocations not yet finished
    task_store,         \* object id -> the value the invocation returned
    normal_result,      \* what the ray.wait / ray.get cell evaluated to
    await_result,       \* what `await some_task.remote()` evaluated to
    \* ---- tune.run of the grid-search cell
    tune_pc,            \* "idle", "running", "returned" or "raised"
    ray_auto_init,      \* the argument ray_auto_init of the latest tune.run
    grid1,              \* the list of the first grid_search
    grid2,              \* the list of the second grid_search
    trials,             \* the trials: their fcnet_hiddens and status
    tune_session,       \* the connection the latest tune.run used, or None
    tune_inited_ray     \* did the latest tune.run initialize Ray itself

banditVars == <<bandit, action_space, observation_space, current_context,
                rewards_for_context, observation, reset_observation,
                last_action, result, raised, last_call, ncalls,
                episode_steps>>

driverVars == <<ray_pc, i, ids, values, awaited, refs3, printed_ids,
                printed_values, result3>>

actorVars == <<max_concurrency, queue, running, started, finished, store>>

asyncVars == <<driverVars, actorVars>>

poolVars == <<pool_pc, pool_n, pool_task, pool_slot, pool_completed,
              map_result, printed>>

nudgeVars == <<nudge_pc, X, Y, nudged_X, nudged_Y>>

rayVars == <<ray_connected, ray_sessions, ray_ops, ray_raised,
             ray_last_cell>>

taskVars == <<task_pc, task_ref, tasks_submitted, task_pending, task_store,
              normal_result, await_result>>

tuneVars == <<tune_pc, ray_auto_init, grid1, grid2, trials, tune_session,
              tune_inited_ray>>

vars == <<banditVars, asyncVars, poolVars, nudgeVars, rayVars, taskVars,
          tuneVars>>

---------------------------------------------------------------------------
\* Python's None and a present value, as sequences of length 0 and 1.
None == << >>
Some(x) == <<x>>
Get(o) == o[1]

---------------------------------------------------------------------------
\* SimpleContextualBandit

\* Largest number of calls (constructor, reset, step) in a run of the model.
MaxCalls == 7

\* Discrete(3): three arms, actions 0, 1, 2.
NumArms == 3

Discrete(n) == 0 .. (n - 1)

\* Box(low=-1., high=1., shape=(2,), dtype=np.float64)
Box == [low |-> -1, high |-> 1, shape |-> <<2>>]

\* The two contexts, random.choice([-1., 1.]).
Contexts == {-1, 1}

\* Variant: the two rows of the table exchanged.
RewardTableSwapped == (-1 :> <<10, 0, -10>>) @@ (1 :> <<-10, 0, 10>>)

\* Variant: the table of Exercise 2, where the second arm pays.
RewardTableExercise2 == (-1 :> <<-10, 10, 0>>) @@ (1 :> <<0, 10, -10>>)

\* The reward table of __init__; Python lists are 0-based, sequences 1-based.
RewardTable == (-1 :> <<-10, 0, 10>>) @@ (1 :> <<10, 0, -10>>)

\* The constant that step subtracts the reward from.
RegretBase == 10

\* np.array([-self.current_context, self.current_context])
ObservationOf(c) == <<0 - c, c>>

\* rewards[action] of a Python list
ListItem(list, index) == list[index + 1]

\* Variant: the regret with its sign reversed.
StepResultNegRegret(rewards, c, action) ==
    LET reward == ListItem(rewards[c], action)
    IN  [observation |-> ObservationOf(c),
         reward      |-> reward,
         done        |-> TRUE,
         info        |-> [regret |-> reward - RegretBase]]

\* The tuple step returns when no exception is raised.
StepResult(rewards, c, action) ==
    LET reward == ListItem(rewards[c], action)
    IN  [observation |-> ObservationOf(c),
         reward      |-> reward,
         done        |-> TRUE,
         info        |-> [regret |-> RegretBase - reward]]

InitBandit ==
    /\ bandit = "absent"
    /\ action_space = 0
    /\ observation_space = None
    /\ current_context = None
    /\ rewards_for_context = << >>
    /\ observation = None
    /\ reset_observation = None
    /\ last_action = None
    /\ result = None
    /\ raised = "none"
    /\ last_call = "none"
    /\ ncalls = 0
    /\ episode_steps = 0

\* bandit = SimpleContextualBandit(): a fresh object replaces the old one.
SimpleContextualBandit ==
    /\ ncalls < MaxCalls
    /\ bandit' = "built"
    /\ action_space' = NumArms
    /\ observation_space' = Some(Box)
    /\ current_context' = None
    /\ rewards_for_context' = RewardTable
    /\ raised' = "none"
    /\ last_call' = "__init__"
    /\ ncalls' = ncalls + 1
    /\ UNCHANGED <<observation, reset_observation, last_action, result,
                   episode_steps>>
    /\ UNCHANGED <<asyncVars, poolVars, nudgeVars, rayVars, taskVars, tuneVars>>

\* Variant: a reset that also exchanges the two rows of the reward table.
resetSwappingRewards ==
    /\ bandit # "absent"
    /\ ncalls < MaxCalls
    /\ \E c \in Contexts :
          /\ current_context' = Some(c)
          /\ reset_observation' = Some(ObservationOf(c))
          /\ observation' = Some(ObservationOf(c))
    /\ rewards_for_context' =
           [c \in DOMAIN rewards_for_context |-> rewards_for_context[0 - c]]
    /\ raised' = "none"
    /\ last_call' = "reset"
    /\ ncalls' = ncalls + 1
    /\ episode_steps' = 0
    /\ UNCHANGED <<bandit, action_space, observation_space, last_action,
                   result>>
    /\ UNCHANGED <<asyncVars, poolVars, nudgeVars, rayVars, taskVars, tuneVars>>

\* observation = bandit.reset()
reset ==
    /\ bandit # "absent"
    /\ ncalls < MaxCalls
    /\ \E c \in Contexts :
          /\ current_context' = Some(c)
          /\ reset_observation' = Some(ObservationOf(c))
          /\ observation' = Some(ObservationOf(c))
    /\ raised' = "none"
    /\ last_call' = "reset"
    /\ ncalls' = ncalls + 1
    /\ episode_steps' = 0
    /\ UNCHANGED <<bandit, action_space, observation_space,
                   rewards_for_context, last_action, result>>
    /\ UNCHANGED <<asyncVars, poolVars, nudgeVars, rayVars, taskVars, tuneVars>>

\* Variant: a step that draws a new context on each invocation.
stepRedraw(action) ==
    /\ bandit = "built"
    /\ ncalls < MaxCalls
    /\ last_action' = Some(action)
    /\ IF current_context = None
       THEN /\ raised' = "KeyError"
            /\ UNCHANGED <<result, observation, current_context>>
       ELSE \E c \in Contexts :
              LET r == StepResult(rewards_for_context, c, action)
              IN  /\ raised' = "none"
                  /\ current_context' = Some(c)
                  /\ result' = Some(r)
                  /\ observation' = Some(r.observation)
    /\ last_call' = "step"
    /\ ncalls' = ncalls + 1
    /\ episode_steps' = episode_steps + 1
    /\ UNCHANGED <<bandit, action_space, observation_space,
                   rewards_for_context, reset_observation>>
    /\ UNCHANGED <<asyncVars, poolVars, nudgeVars, rayVars, taskVars, tuneVars>>

\* observation, reward, done, info = bandit.step(action)
\* The dict lookup raises KeyError when current_context is still None, and
\* then nothing is returned or assigned.
step(action) ==
    /\ bandit = "built"
    /\ ncalls < MaxCalls
    /\ last_action' = Some(action)
    /\ IF current_context = None
          \/ Get(current_context) \notin DOMAIN rewards_for_context
       THEN /\ raised' = "KeyError"
            /\ UNCHANGED <<result, observation>>
       ELSE LET r == StepResult(rewards_for_context, Get(current_context),
                                action)
            IN  /\ raised' = "none"
                /\ result' = Some(r)
                /\ observation' = Some(r.observation)
    /\ last_call' = "step"
    /\ ncalls' = ncalls + 1
    /\ episode_steps' = episode_steps + 1
    /\ UNCHANGED <<bandit, action_space, observation_space, current_context,
                   rewards_for_context, reset_observation>>
    /\ UNCHANGED <<asyncVars, poolVars, nudgeVars, rayVars, taskVars, tuneVars>>

\* action = bandit.action_space.sample(); bandit.step(action)
SampleAndStep == \E action \in Discrete(action_space) : step(action)

NextBandit ==
    \/ SimpleContextualBandit
    \/ reset
    \/ SampleAndStep

---------------------------------------------------------------------------
\* Exercise 1: the bandit with the step method of the exercise. The method
\* is put in SimpleContextualBandit itself ("change the step method"), where
\* super() is gym.Env, or in a class derived from it, where super().step is
\* the step above.

Exercise1Classes == {"exercise1", "exercise1_subclass"}

\* bandit = <the class with the Exercise 1 step>(); __init__ is unchanged.
Exercise1Bandit(class) ==
    /\ ncalls < MaxCalls
    /\ bandit' = class
    /\ action_space' = NumArms
    /\ observation_space' = Some(Box)
    /\ current_context' = None
    /\ rewards_for_context' = RewardTable
    /\ raised' = "none"
    /\ last_call' = "__init__"
    /\ ncalls' = ncalls + 1
    /\ UNCHANGED <<observation, reset_observation, last_action, result,
                   episode_steps>>
    /\ UNCHANGED <<asyncVars, poolVars, nudgeVars, rayVars, taskVars, tuneVars>>

\* The exception `result = super().step(action)` raises, or "none".
\* gym.Env.step is abstract; the step above raises KeyError before reset.
SuperStepRaises ==
    IF bandit = "exercise1" THEN "NotImplementedError"
    ELSE IF current_context = None THEN "KeyError"
    ELSE "none"

\* The name `reward` in the method: it is not assigned there, so it is the
\* notebook's global of that name, which the driver's loop assigned from the
\* tuple of its latest step; None when there is no such global.
GlobalReward == IF result = None THEN None ELSE Some(Get(result).reward)

\* The tuple the return statement builds from the new context c and the
\* value r of `reward`.
Exercise1Result(c, r) ==
    [observation |-> ObservationOf(c),
     reward      |-> r,
     done        |-> TRUE,
     info        |-> [regret |-> RegretBase - r]]

\* observation, reward, done, info = bandit.step(action), with the
\* Exercise 1 step: super().step, then the new context, then the return.
step_exercise1(action) ==
    /\ bandit \in Exercise1Classes
    /\ ncalls < MaxCalls
    /\ last_action' = Some(action)
    /\ IF SuperStepRaises # "none"
       THEN /\ raised' = SuperStepRaises
            /\ UNCHANGED <<result, observation, current_context>>
       ELSE \E c \in Contexts :
              /\ current_context' = Some(c)
              /\ IF GlobalReward = None
                 THEN /\ raised' = "NameError"
                      /\ UNCHANGED <<result, observation>>
                 ELSE LET r == Exercise1Result(c, Get(GlobalReward))
                      IN  /\ raised' = "none"
                          /\ result' = Some(r)
                          /\ observation' = Some(r.observation)
    /\ last_call' = "exercise1.step"
    /\ ncalls' = ncalls + 1
    /\ episode_steps' = episode_steps + 1
    /\ UNCHANGED <<bandit, action_space, observation_space,
                   rewards_for_context, reset_observation>>
    /\ UNCHANGED <<asyncVars, poolVars, nudgeVars, rayVars, taskVars, tuneVars>>

\* The cells above run first or not at all; then the exercise.
NextExercise1 ==
    \/ SimpleContextualBandit
    \/ reset
    \/ SampleAndStep
    \/ \E class \in Exercise1Classes : Exercise1Bandit(class)
    \/ \E action \in Discrete(action_space) : step_exercise1(action)

---------------------------------------------------------------------------
\* AsyncActor, its driver cells, and the actor runtime they run on.
\* The runtime is the platform's; it is modelled as the lesson documents it:
\* an actor runs its invocations in submission order inside one event loop,
\* an invocation gives up the loop at its await, and at most max_concurrency
\* invocations are between their start and their end.

\* for i in range(10)
LoopCount == 10

\* run_concurrent.remote(10+i)
AwaitOffset == 10

\* range(12) of the comprehension that feeds actor3
Actor3Count == 12

\* AsyncActor.options(max_concurrency=3)
Actor3MaxConcurrency == 3

\* "By default, 1000 tasks can be running concurrently."
DefaultMaxConcurrency == 1000

ActorNames == {"actor", "actor3"}

\* The object id of the k-th invocation submitted to actor a.
ObjectId(a, k) == <<a, k>>

\* Number of invocations submitted to actor a so far.
Submissions(a) ==
    Len(queue[a]) + Cardinality(running[a]) + Cardinality(finished[a])

\* The indexes submitted to actor a so far.
Submitted(a) ==
    {queue[a][k].index : k \in 1 .. Len(queue[a])}
        \cup {inv.index : inv \in running[a]} \cup finished[a]

\* `return index` of run_concurrent
run_concurrent_return(index) == index

\* actor.run_concurrent.remote(index): the queue of a with the new
\* invocation at its end; the call returns ObjectId(a, Submissions(a) + 1).
Remote(a, index) ==
    [queue EXCEPT ![a] =
        Append(@, [ref |-> ObjectId(a, Submissions(a) + 1), index |-> index])]

\* Variant: an actor that starts an invocation only when none is running.
CanStartSynchronous(a) ==
    /\ a \in DOMAIN max_concurrency
    /\ queue[a] # << >>
    /\ running[a] = {}

\* Variant: a limit that admits one invocation too many.
CanStartOffByOne(a) ==
    /\ a \in DOMAIN max_concurrency
    /\ queue[a] # << >>
    /\ Cardinality(running[a]) <= max_concurrency[a]

\* The runtime starts the next invocation of a: there is one, and fewer
\* than max_concurrency invocations are running.
CanStart(a) ==
    /\ a \in DOMAIN max_concurrency
    /\ queue[a] # << >>
    /\ Cardinality(running[a]) < max_concurrency[a]

\* Variant: results handed to the oldest unresolved object id of the actor,
\* that is, in completion order.
ResultRefByCompletion(a, inv) ==
    LET unresolved == {k \in 1 .. Submissions(a) :
                          ObjectId(a, k) \notin DOMAIN store}
    IN  ObjectId(a, CHOOSE k \in unresolved : \A m \in unresolved : k <= m)

\* The object id under which the return value of invocation inv is stored.
ResultRef(a, inv) == inv.ref

\* ray.get(list of object ids): the values, position by position.
RayGet(refs) == [k \in 1 .. Len(refs) |-> store[refs[k]]]

\* ray.get and await are ready when the values are in the store.
Ready(refs) == \A k \in 1 .. Len(refs) : refs[k] \in DOMAIN store

InitAsync ==
    /\ ray_pc = "cell11_create"
    /\ i = 0
    /\ ids = << >>
    /\ values = << >>
    /\ awaited = None
    /\ refs3 = << >>
    /\ printed_ids = None
    /\ printed_values = None
    /\ result3 = None
    /\ max_concurrency = << >>
    /\ queue = [a \in ActorNames |-> << >>]
    /\ running = [a \in ActorNames |-> {}]
    /\ started = [a \in ActorNames |-> {}]
    /\ finished = [a \in ActorNames |-> {}]
    /\ store = << >>

\* run_concurrent up to its await: print(f'started {index}'), then
\* asyncio.sleep(0.2) hands the event loop back.
ActorStart(a) ==
    /\ CanStart(a)
    /\ LET inv == Head(queue[a])
       IN  /\ queue' = [queue EXCEPT ![a] = Tail(@)]
           /\ running' = [running EXCEPT ![a] = @ \cup {inv}]
           /\ started' = [started EXCEPT ![a] = @ \cup {inv.index}]
    /\ UNCHANGED <<max_concurrency, finished, store>>
    /\ UNCHANGED <<driverVars, banditVars, poolVars, nudgeVars, rayVars, taskVars, tuneVars>>

\* run_concurrent after its await: print(f'finished {index}'); return index.
\* Which of the sleeping invocations wakes first is left open.
ActorFinish(a) ==
    \E inv \in running[a] :
        /\ running' = [running EXCEPT ![a] = @ \ {inv}]
        /\ finished' = [finished EXCEPT ![a] = @ \cup {inv.index}]
        /\ store' = (ResultRef(a, inv) :> run_concurrent_return(inv.index))
                        @@ store
        /\ UNCHANGED <<max_concurrency, queue, started>>
        /\ UNCHANGED <<driverVars, banditVars, poolVars, nudgeVars, rayVars, taskVars, tuneVars>>

\* actor = AsyncActor.remote()
Cell11Create ==
    /\ ray_pc = "cell11_create"
    /\ max_concurrency' = ("actor" :> DefaultMaxConcurrency) @@ max_concurrency
    /\ ray_pc' = "cell11_submit"
    /\ UNCHANGED <<i, ids, values, awaited, refs3, printed_ids,
                   printed_values, result3>>
    /\ UNCHANGED <<queue, running, started, finished, store>>
    /\ UNCHANGED <<banditVars, poolVars, nudgeVars, rayVars, taskVars, tuneVars>>

\* ids.append(actor.run_concurrent.remote(i))
Cell11Submit ==
    /\ ray_pc = "cell11_submit"
    /\ ids' = Append(ids, ObjectId("actor", Submissions("actor") + 1))
    /\ queue' = Remote("actor", i)
    /\ ray_pc' = "cell11_await"
    /\ UNCHANGED <<i, values, awaited, refs3, printed_ids, printed_values,
                   result3>>
    /\ UNCHANGED <<max_concurrency, running, started, finished, store>>
    /\ UNCHANGED <<banditVars, poolVars, nudgeVars, rayVars, taskVars, tuneVars>>

\* Variant: the await forgotten; the object id itself goes into values and
\* the loop goes on at once.
Cell11AwaitForgotten ==
    /\ ray_pc = "cell11_await"
    /\ values' = Append(values, ObjectId("actor", Submissions("actor") + 1))
    /\ queue' = Remote("actor", AwaitOffset + i)
    /\ i' = i + 1
    /\ ray_pc' = IF i + 1 < LoopCount THEN "cell11_submit" ELSE "cell11_get"
    /\ UNCHANGED <<ids, awaited, refs3, printed_ids, printed_values, result3>>
    /\ UNCHANGED <<max_concurrency, running, started, finished, store>>
    /\ UNCHANGED <<banditVars, poolVars, nudgeVars, rayVars, taskVars, tuneVars>>

\* await actor.run_concurrent.remote(10+i): the submission; the driver then
\* waits for the object id.
Cell11Await ==
    /\ ray_pc = "cell11_await"
    /\ awaited' = Some(ObjectId("actor", Submissions("actor") + 1))
    /\ queue' = Remote("actor", AwaitOffset + i)
    /\ ray_pc' = "cell11_awaiting"
    /\ UNCHANGED <<i, ids, values, refs3, printed_ids, printed_values,
                   result3>>
    /\ UNCHANGED <<max_concurrency, running, started, finished, store>>
    /\ UNCHANGED <<banditVars, poolVars, nudgeVars, rayVars, taskVars, tuneVars>>

\* values.append(<the awaited value>), and the next round of the loop.
Cell11Resume ==
    /\ ray_pc = "cell11_awaiting"
    /\ Ready(awaited)
    /\ values' = Append(values, store[Get(awaited)])
    /\ awaited' = None
    /\ i' = i + 1
    /\ ray_pc' = IF i + 1 < LoopCount THEN "cell11_submit" ELSE "cell11_get"
    /\ UNCHANGED <<ids, refs3, printed_ids, printed_values, result3>>
    /\ UNCHANGED actorVars
    /\ UNCHANGED <<banditVars, poolVars, nudgeVars, rayVars, taskVars, tuneVars>>

\* print(ray.get(ids)); print(values)
Cell11Get ==
    /\ ray_pc = "cell11_get"
    /\ Ready(ids)
    /\ printed_ids' = Some(RayGet(ids))
    /\ printed_values' = Some(values)
    /\ ray_pc' = "cell12"
    /\ UNCHANGED <<i, ids, values, awaited, refs3, result3>>
    /\ UNCHANGED actorVars
    /\ UNCHANGED <<banditVars, poolVars, nudgeVars, rayVars, taskVars, tuneVars>>

\* actor3 = AsyncActor.options(max_concurrency=3).remote()
Cell12Create ==
    /\ ray_pc = "cell12"
    /\ max_concurrency' = ("actor3" :> Actor3MaxConcurrency) @@ max_concurrency
    /\ ray_pc' = "cell13_submit"
    /\ UNCHANGED <<i, ids, values, awaited, refs3, printed_ids,
                   printed_values, result3>>
    /\ UNCHANGED <<queue, running, started, finished, store>>
    /\ UNCHANGED <<banditVars, poolVars, nudgeVars, rayVars, taskVars, tuneVars>>

\* [actor3.run_concurrent.remote(i) for i in range(12)], one element
Cell13Submit ==
    /\ ray_pc = "cell13_submit"
    /\ refs3' = Append(refs3, ObjectId("actor3", Submissions("actor3") + 1))
    /\ queue' = Remote("actor3", Len(refs3))
    /\ ray_pc' = IF Len(refs3) + 1 < Actor3Count THEN "cell13_submit"
                                                ELSE "cell13_get"
    /\ UNCHANGED <<i, ids, values, awaited, printed_ids, printed_values,
                   result3>>
    /\ UNCHANGED <<max_concurrency, running, started, finished, store>>
    /\ UNCHANGED <<banditVars, poolVars, nudgeVars, rayVars, taskVars, tuneVars>>

\* ray.get([...]) of the twelve object ids
Cell13Get ==
    /\ ray_pc = "cell13_get"
    /\ Ready(refs3)
    /\ result3' = Some(RayGet(refs3))
    /\ ray_pc' = "done"
    /\ UNCHANGED <<i, ids, values, awaited, refs3, printed_ids,
                   printed_values>>
    /\ UNCHANGED actorVars
    /\ UNCHANGED <<banditVars, poolVars, nudgeVars, rayVars, taskVars, tuneVars>>

ActorStep == \E a \in ActorNames : ActorStart(a) \/ ActorFinish(a)

NextAsync ==
    \/ Cell11Create
    \/ Cell11Submit
    \/ Cell11Await
    \/ Cell11Resume
    \/ Cell11Get
    \/ Cell12Create
    \/ Cell13Submit
    \/ Cell13Get
    \/ ActorStep

---------------------------------------------------------------------------
\* run_with_pool: Pool.map over the workers of the platform's Pool.
\* The Pool is the platform's drop-in for multiprocessing.Pool; its map is
\* modelled as that API defines it: every element of the iterable is handed
\* to some worker, the workers finish in any order, and map returns once all
\* results are there.

\* Largest argument n of run_with_pool in the model.
MaxPoolN == 4

\* Number of worker processes of Pool() in the model.
NumWorkers == 2

Workers == 1 .. NumWorkers

\* def f(index): return index
f(index) == index

\* Variant: the results in the order in which the workers delivered them.
MapResultUnordered(n, slot, completed) ==
    [k \in 1 .. n |-> Get(slot[completed[k]])]

\* The list pool.map returns: the result of the k-th element at position k.
MapResult(n, slot, completed) == [k \in 1 .. n |-> Get(slot[k - 1])]

InitPool ==
    /\ pool_pc = "idle"
    /\ pool_n = 0
    /\ pool_task = << >>
    /\ pool_slot = << >>
    /\ pool_completed = << >>
    /\ map_result = << >>
    /\ printed = << >>

\* run_with_pool(n): pool = Pool(); pool.map(f, range(n)) is called.
RunWithPool ==
    /\ pool_pc = "idle"
    /\ \E n \in 0 .. MaxPoolN :
          /\ pool_n' = n
          /\ pool_task' = [k \in 0 .. (n - 1) |->
                              [status |-> "pending", worker |-> 0]]
          /\ pool_slot' = [k \in 0 .. (n - 1) |-> None]
    /\ pool_pc' = "map"
    /\ UNCHANGED <<pool_completed, map_result, printed>>
    /\ UNCHANGED <<banditVars, asyncVars, nudgeVars, rayVars, taskVars, tuneVars>>

\* An idle worker is handed an element that no worker had yet.
WorkerTake ==
    /\ pool_pc = "map"
    /\ \E w \in Workers, k \in DOMAIN pool_task :
          /\ pool_task[k].status = "pending"
          /\ \A m \in DOMAIN pool_task :
                pool_task[m].status = "running" => pool_task[m].worker # w
          /\ pool_task' = [pool_task EXCEPT
                              ![k] = [status |-> "running", worker |-> w]]
    /\ UNCHANGED <<pool_pc, pool_n, pool_slot, pool_completed, map_result,
                   printed>>
    /\ UNCHANGED <<banditVars, asyncVars, nudgeVars, rayVars, taskVars, tuneVars>>

\* A worker returns f(index) for the element it has.
WorkerComplete ==
    /\ pool_pc = "map"
    /\ \E k \in DOMAIN pool_task :
          /\ pool_task[k].status = "running"
          /\ pool_task' = [pool_task EXCEPT ![k].status = "done"]
          /\ pool_slot' = [pool_slot EXCEPT ![k] = Some(f(k))]
          /\ pool_completed' = Append(pool_completed, k)
    /\ UNCHANGED <<pool_pc, pool_n, map_result, printed>>
    /\ UNCHANGED <<banditVars, asyncVars, nudgeVars, rayVars, taskVars, tuneVars>>

\* pool.map returns its list.
MapReturn ==
    /\ pool_pc = "map"
    /\ \A k \in DOMAIN pool_task : pool_task[k].status = "done"
    /\ map_result' = MapResult(pool_n, pool_slot, pool_completed)
    /\ pool_pc' = IF pool_n = 0 THEN "done" ELSE "print"
    /\ UNCHANGED <<pool_n, pool_task, pool_slot, pool_completed, printed>>
    /\ UNCHANGED <<banditVars, asyncVars, nudgeVars, rayVars, taskVars, tuneVars>>

\* for result in ...: print(f'{result}|', end=''), one round of the loop
PrintResult ==
    /\ pool_pc = "print"
    /\ printed' = Append(printed, map_result[Len(printed) + 1])
    /\ pool_pc' = IF Len(printed) + 1 = Len(map_result) THEN "done"
                                                        ELSE "print"
    /\ UNCHANGED <<pool_n, pool_task, pool_slot, pool_completed, map_result>>
    /\ UNCHANGED <<banditVars, asyncVars, nudgeVars, rayVars, taskVars, tuneVars>>

NextPool ==
    \/ RunWithPool
    \/ WorkerTake
    \/ WorkerComplete
    \/ MapReturn
    \/ PrintResult

---------------------------------------------------------------------------
\* nudge_dataset

\* Largest number of images of a dataset in the model.
MaxImages == 2

\* x.reshape((8, 8)): the side of an image.
Side == 8

\* Y is repeated for _ in range(5).
Copies == 5

Pixels == 1 .. (Side * Side)

\* An image that is v at row r, column c (0-based) and 0 elsewhere.
OneHot(r, c, v) == [k \in Pixels |-> IF k = Side * r + c + 1 THEN v ELSE 0]

\* The images the model's datasets are made of: one pixel in a corner, one
\* inside, one on the lower border, and an image with no zero pixel.
Images ==
    {OneHot(0, 0, 16), OneHot(3, 4, 9), OneHot(7, 2, 5),
     [k \in Pixels |-> 1 + (k % 16)]}

\* The labels of the model's datasets (digits).
Labels == {3, 7}

\* The four 3x3 kernels of nudge_dataset, in the order of the source.
direction_vectors ==
    << <<<<0, 1, 0>>, <<0, 0, 0>>, <<0, 0, 0>>>>,
       <<<<0, 0, 0>>, <<1, 0, 0>>, <<0, 0, 0>>>>,
       <<<<0, 0, 0>>, <<0, 0, 1>>, <<0, 0, 0>>>>,
       <<<<0, 0, 0>>, <<0, 0, 0>>, <<0, 1, 0>>>> >>

\* Pixel (row r, column c), 0-based, of the flat image x; mode='constant'
\* reads 0 outside the image.
PixelAt(x, r, c) ==
    IF r \in 0 .. (Side - 1) /\ c \in 0 .. (Side - 1)
    THEN x[Side * r + c + 1]
    ELSE 0

\* Variant: a correlation, that is, the kernel not mirrored.
CorrelateAt(x, w, r, c) ==
      w[1][1] * PixelAt(x, r - 1, c - 1)
    + w[1][2] * PixelAt(x, r - 1, c)
    + w[1][3] * PixelAt(x, r - 1, c + 1)
    + w[2][1] * PixelAt(x, r, c - 1)
    + w[2][2] * PixelAt(x, r, c)
    + w[2][3] * PixelAt(x, r, c + 1)
    + w[3][1] * PixelAt(x, r + 1, c - 1)
    + w[3][2] * PixelAt(x, r + 1, c)
    + w[3][3] * PixelAt(x, r + 1, c + 1)

\* scipy.ndimage.convolve with a 3x3 kernel w centred on the pixel:
\* out[r, c] = sum over a, b in 0..2 of w[a, b] * in[r + 1 - a, c + 1 - b].
ConvolveAt(x, w, r, c) ==
      w[1][1] * PixelAt(x, r + 1, c + 1)
    + w[1][2] * PixelAt(x, r + 1, c)
    + w[1][3] * PixelAt(x, r + 1, c - 1)
    + w[2][1] * PixelAt(x, r, c + 1)
    + w[2][2] * PixelAt(x, r, c)
    + w[2][3] * PixelAt(x, r, c - 1)
    + w[3][1] * PixelAt(x, r - 1, c + 1)
    + w[3][2] * PixelAt(x, r - 1, c)
    + w[3][3] * PixelAt(x, r - 1, c - 1)

\* shift(x, w): convolve(x.reshape((8, 8)), mode='constant', weights=w).ravel()
shift(x, w) ==
    [k \in Pixels |-> ConvolveAt(x, w, (k - 1) \div Side, (k - 1) % Side)]

\* np.apply_along_axis(shift, 1, X, vector): shift applied to every row.
ApplyAlongAxis(rows, w) == [k \in 1 .. Len(rows) |-> shift(rows[k], w)]

\* np.concatenate of a list of arrays along axis 0.
RECURSIVE Concatenate(_)
Concatenate(arrays) ==
    IF arrays = << >> THEN << >>
    ELSE Head(arrays) \o Concatenate(Tail(arrays))

\* The arrays nudge_dataset returns for X and Y when it returns.
NudgedX(rows) ==
    Concatenate(<<rows>> \o [v \in 1 .. Len(direction_vectors) |->
                                ApplyAlongAxis(rows, direction_vectors[v])])

\* Variant: the labels repeated once per kernel only.
NudgedYPerKernel(labels) ==
    Concatenate([c \in 1 .. Len(direction_vectors) |-> labels])

NudgedY(labels) == Concatenate([c \in 1 .. Copies |-> labels])

InitNudge ==
    /\ nudge_pc = "load"
    /\ X = << >>
    /\ Y = << >>
    /\ nudged_X = << >>
    /\ nudged_Y = << >>

\* The dataset is loaded: n images and their n labels.
LoadData ==
    /\ nudge_pc = "load"
    /\ \E n \in 0 .. MaxImages :
          /\ X' \in [1 .. n -> Images]
          /\ Y' \in [1 .. n -> Labels]
    /\ nudge_pc' = "loaded"
    /\ UNCHANGED <<nudged_X, nudged_Y>>
    /\ UNCHANGED <<banditVars, asyncVars, poolVars, rayVars, taskVars,
                   tuneVars>>

\* X, Y = nudge_dataset(X, y). np.apply_along_axis raises ValueError when
\* the array has no rows, before anything is returned.
nudge_dataset ==
    /\ nudge_pc = "loaded"
    /\ IF Len(X) = 0
       THEN /\ nudge_pc' = "raised"
            /\ UNCHANGED <<nudged_X, nudged_Y>>
       ELSE /\ nudge_pc' = "returned"
            /\ nudged_X' = NudgedX(X)
            /\ nudged_Y' = NudgedY(Y)
    /\ UNCHANGED <<X, Y>>
    /\ UNCHANGED <<banditVars, asyncVars, poolVars, rayVars, taskVars,
                   tuneVars>>

NextNudge ==
    \/ LoadData
    \/ nudge_dataset

---------------------------------------------------------------------------
----------------------------------------------------------------------------
(***************************************************************************)
(* The driver's connection to Ray: ray.init, ray.shutdown and the check    *)
(* every remote submission makes.                                          *)
(***************************************************************************)

\* How many cells the driver runs in one behaviour.
MaxRayOps == 6

\* The driver runs one cell at a time: a new cell starts only when no cell
\* is blocked in ray.wait, in an await or in tune.run.
DriverIdle == task_pc = "idle" /\ tune_pc # "running"

InitRay ==
    /\ ray_connected = FALSE
    /\ ray_sessions = 0
    /\ ray_ops = 0
    /\ ray_raised = "none"
    /\ ray_last_cell = "none"

\* ray.init(address='auto', ignore_reinit_error=True): connects, or is
\* ignored when the driver is connected already.
RayInit ==
    /\ DriverIdle
    /\ ray_ops < MaxRayOps
    /\ ray_connected' = TRUE
    /\ ray_sessions' = IF ray_connected THEN ray_sessions ELSE ray_sessions + 1
    /\ ray_ops' = ray_ops + 1
    /\ ray_raised' = "none"
    /\ ray_last_cell' = "ray.init"
    /\ UNCHANGED <<banditVars, asyncVars, poolVars, nudgeVars, taskVars,
                   tuneVars>>

\* ray.shutdown(): "undo ray.init()"; the processes and their object store
\* are gone.
RayShutdown ==
    /\ DriverIdle
    /\ ray_ops < MaxRayOps
    /\ ray_connected' = FALSE
    /\ task_store' = << >>
    /\ ray_ops' = ray_ops + 1
    /\ ray_raised' = "none"
    /\ ray_last_cell' = "ray.shutdown"
    /\ UNCHANGED <<ray_sessions, task_pc, task_ref, tasks_submitted,
                   task_pending, normal_result, await_result>>
    /\ UNCHANGED <<banditVars, asyncVars, poolVars, nudgeVars, tuneVars>>

----------------------------------------------------------------------------
(***************************************************************************)
(* tune.run over a config with two grid_search entries in fcnet_hiddens.   *)
(***************************************************************************)

\* Longest list handed to a grid_search.
MaxGrid == 2

\* How many trials the cluster runs at the same time.
MaxRunningTrials == 2

\* Layer sizes the lists are taken from; the lesson's lists are the first
\* two.
LayerSizes == <<20, 40, 60, 80>>

GridLists == {SubSeq(LayerSizes, 1, n) : n \in 1..MaxGrid}

\* The lists of the lesson's cell.
LessonGrid == SubSeq(LayerSizes, 1, 2)

Min(a, b) == IF a < b THEN a ELSE b

\* Pairing the lists position by position instead of combining them.
VariantsZipped(l1, l2) ==
    [k \in 1..Min(Len(l1), Len(l2)) |-> <<l1[k], l2[k]>>]

\* The resolved fcnet_hiddens of the trials: one per combination of a value
\* of the first grid_search with a value of the second.
Variants(l1, l2) ==
    [k \in 1..(Len(l1) * Len(l2)) |->
        <<l1[((k - 1) \div Len(l2)) + 1], l2[((k - 1) % Len(l2)) + 1]>>]

InitTune ==
    /\ tune_pc = "idle"
    /\ ray_auto_init = TRUE
    /\ grid1 = << >>
    /\ grid2 = << >>
    /\ trials = << >>
    /\ tune_session = None
    /\ tune_inited_ray = FALSE

\* A tune.run that never looks at the flag.
TuneRefusesNever(auto) == FALSE

\* tune.run throws instead of initializing Ray.
TuneRefuses(auto) == ~ray_connected /\ ~auto

\* analysis = tune.run("PPO", config={... grid_search(l1), grid_search(l2)},
\*                     ray_auto_init=auto)
TuneRun(auto, l1, l2) ==
    /\ DriverIdle
    /\ ray_ops < MaxRayOps
    /\ ray_ops' = ray_ops + 1
    /\ ray_last_cell' = "tune.run"
    /\ ray_auto_init' = auto
    /\ grid1' = l1
    /\ grid2' = l2
    /\ IF TuneRefuses(auto)
       THEN /\ tune_pc' = "raised"
            /\ ray_raised' = "Error"
            /\ trials' = << >>
            /\ tune_session' = None
            /\ tune_inited_ray' = FALSE
            /\ UNCHANGED <<ray_connected, ray_sessions>>
       ELSE /\ ray_connected' = TRUE
            /\ ray_sessions' =
                   IF ray_connected THEN ray_sessions ELSE ray_sessions + 1
            /\ tune_inited_ray' = ~ray_connected
            /\ tune_session' = Some(ray_sessions')
            /\ trials' = [k \in DOMAIN Variants(l1, l2) |->
                             [fcnet_hiddens |-> Variants(l1, l2)[k],
                              status |-> "PENDING"]]
            /\ tune_pc' = "running"
            /\ ray_raised' = "none"
    /\ UNCHANGED <<banditVars, asyncVars, poolVars, nudgeVars, taskVars>>

RunningTrials == {k \in DOMAIN trials : trials[k].status = "RUNNING"}

\* FIFO scheduling: the next pending trial starts when there is room.
TrialStart(k) ==
    /\ tune_pc = "running"
    /\ k \in DOMAIN trials
    /\ trials[k].status = "PENDING"
    /\ \A j \in 1..(k - 1) : trials[j].status # "PENDING"
    /\ Cardinality(RunningTrials) < MaxRunningTrials
    /\ trials' = [trials EXCEPT ![k].status = "RUNNING"]
    /\ UNCHANGED <<tune_pc, ray_auto_init, grid1, grid2, tune_session,
                   tune_inited_ray>>
    /\ UNCHANGED <<banditVars, asyncVars, poolVars, nudgeVars, rayVars,
                   taskVars>>

\* A running trial meets the stopping criterion, or fails.
TrialFinish(k, status) ==
    /\ tune_pc = "running"
    /\ k \in RunningTrials
    /\ trials' = [trials EXCEPT ![k].status = status]
    /\ UNCHANGED <<tune_pc, ray_auto_init, grid1, grid2, tune_session,
                   tune_inited_ray>>
    /\ UNCHANGED <<banditVars, asyncVars, poolVars, nudgeVars, rayVars,
                   taskVars>>

\* tune.run returns the analysis when every trial is over, or raises
\* TuneError('Trials did not complete') when one of them failed.
TuneReturn ==
    /\ tune_pc = "running"
    /\ \A k \in DOMAIN trials : trials[k].status \in {"TERMINATED", "ERROR"}
    /\ IF \E k \in DOMAIN trials : trials[k].status = "ERROR"
       THEN tune_pc' = "raised" /\ ray_raised' = "TuneError"
       ELSE tune_pc' = "returned" /\ ray_raised' = "none"
    /\ UNCHANGED <<ray_connected, ray_sessions, ray_ops, ray_last_cell>>
    /\ UNCHANGED <<ray_auto_init, grid1, grid2, trials, tune_session,
                   tune_inited_ray>>
    /\ UNCHANGED <<banditVars, asyncVars, poolVars, nudgeVars, taskVars>>

NextTune ==
    \/ RayInit
    \/ RayShutdown
    \/ \E auto \in BOOLEAN, l1 \in GridLists, l2 \in GridLists :
           TuneRun(auto, l1, l2)
    \/ \E k \in 1..(MaxGrid * MaxGrid) : TrialStart(k)
    \/ \E k \in 1..(MaxGrid * MaxGrid), status \in {"TERMINATED", "ERROR"} :
           TrialFinish(k, status)
    \/ TuneReturn

----------------------------------------------------------------------------
(***************************************************************************)
(* The some_task cells: "the normal Ray way" and the asyncio alternative.  *)
(* Python values carry their type, so that the list [1] and the integer 1  *)
(* are different values.                                                   *)
(***************************************************************************)

PyInt(n) == [kind |-> "int", val |-> n]

PyList(s) == [kind |-> "list", val |-> s]

InitTasks ==
    /\ task_pc = "idle"
    /\ task_ref = None
    /\ tasks_submitted = 0
    /\ task_pending = {}
    /\ task_store = << >>
    /\ normal_result = None
    /\ await_result = None

\* A submission that does not look at the connection.
check_connected_skipped == TRUE

\* worker.check_connected: `if not self.connected: raise RayConnectionError`
check_connected == ray_connected

\* def some_task(): return 1
some_task == PyInt(1)

\* ray.get of a list of object ids: the list of their values.
RayGetList(refs) == PyList([k \in 1..Len(refs) |-> task_store[refs[k]]])

\* An await that hands back a list of one value.
AwaitValueAsList(ref) == PyList(<<task_store[ref]>>)

\* Awaiting the future of an object id gives the task's value.
AwaitValue(ref) == task_store[ref]

\* id, _ = ray.wait([some_task.remote()]): the submission, up to the point
\* where ray.wait blocks.
NormalWay ==
    /\ DriverIdle
    /\ ray_ops < MaxRayOps
    /\ ray_ops' = ray_ops + 1
    /\ ray_last_cell' = "normal"
    /\ normal_result' = None
    /\ IF check_connected
       THEN /\ tasks_submitted' = tasks_submitted + 1
            /\ task_pending' = task_pending \cup {tasks_submitted'}
            /\ task_ref' = Some(tasks_submitted')
            /\ task_pc' = "waiting"
            /\ ray_raised' = "none"
       ELSE /\ ray_raised' = "RayConnectionError"
            /\ UNCHANGED <<tasks_submitted, task_pending, task_ref, task_pc>>
    /\ UNCHANGED <<ray_connected, ray_sessions, task_store, await_result>>
    /\ UNCHANGED <<banditVars, asyncVars, poolVars, nudgeVars, tuneVars>>

\* ray.wait returns the ready list `id`; the cell's value is ray.get(id).
NormalReturn ==
    /\ task_pc = "waiting"
    /\ Get(task_ref) \in DOMAIN task_store
    /\ normal_result' = Some(RayGetList(<<Get(task_ref)>>))
    /\ task_pc' = "idle"
    /\ task_ref' = None
    /\ UNCHANGED <<tasks_submitted, task_pending, task_store, await_result>>
    /\ UNCHANGED <<banditVars, asyncVars, poolVars, nudgeVars, rayVars,
                   tuneVars>>

\* await some_task.remote(): the submission, up to the await.
AwaitCell ==
    /\ DriverIdle
    /\ ray_ops < MaxRayOps
    /\ ray_ops' = ray_ops + 1
    /\ ray_last_cell' = "await"
    /\ await_result' = None
    /\ IF check_connected
       THEN /\ tasks_submitted' = tasks_submitted + 1
            /\ task_pending' = task_pending \cup {tasks_submitted'}
            /\ task_ref' = Some(tasks_submitted')
            /\ task_pc' = "awaiting"
            /\ ray_raised' = "none"
       ELSE /\ ray_raised' = "RayConnectionError"
            /\ UNCHANGED <<tasks_submitted, task_pending, task_ref, task_pc>>
    /\ UNCHANGED <<ray_connected, ray_sessions, task_store, normal_result>>
    /\ UNCHANGED <<banditVars, asyncVars, poolVars, nudgeVars, tuneVars>>

\* The future is done: the await expression gets its value.
AwaitResume ==
    /\ task_pc = "awaiting"
    /\ Get(task_ref) \in DOMAIN task_store
    /\ await_result' = Some(AwaitValue(Get(task_ref)))
    /\ task_pc' = "idle"
    /\ task_ref' = None
    /\ UNCHANGED <<tasks_submitted, task_pending, task_store, normal_result>>
    /\ UNCHANGED <<banditVars, asyncVars, poolVars, nudgeVars, rayVars,
                   tuneVars>>

\* A worker runs some_task and puts what it returned in the object store.
TaskRun(ref) ==
    /\ ref \in task_pending
    /\ task_pending' = task_pending \ {ref}
    /\ task_store' = (ref :> some_task) @@ task_store
    /\ UNCHANGED <<task_pc, task_ref, tasks_submitted, normal_result,
                   await_result>>
    /\ UNCHANGED <<banditVars, asyncVars, poolVars, nudgeVars, rayVars,
                   tuneVars>>

NextTasks ==
    \/ RayInit
    \/ RayShutdown
    \/ NormalWay
    \/ NormalReturn
    \/ AwaitCell
    \/ AwaitResume
    \/ \E ref \in 1..MaxRayOps : TaskRun(ref)

----------------------------------------------------------------------------

Init ==
    /\ InitBandit /\ InitAsync /\ InitPool /\ InitNudge
    /\ InitRay /\ InitTasks /\ InitTune

SpecBandit == Init /\ [][NextBandit]_vars

SpecExercise1 == Init /\ [][NextExercise1]_vars

SpecAsync == Init /\ [][NextAsync]_vars

SpecPool == Init /\ [][NextPool]_vars

SpecNudge == Init /\ [][NextNudge]_vars

SpecTune == Init /\ [][NextTune]_vars

SpecTasks == Init /\ [][NextTasks]_vars

---------------------------------------------------------------------------
\* Properties of SimpleContextualBandit

\* A step was just taken and returned its tuple.
StepReturned == last_call = "step" /\ raised = "none" /\ result # None

\* A call of step happens in this transition.
StepCalled == last_call' = "step" /\ ncalls' = ncalls + 1

\* The arms whose reward in context c is the largest of the table's row.
BestActions(c) ==
    {a \in Discrete(action_space) :
        \A b \in Discrete(action_space) :
            ListItem(rewards_for_context[c], b)
                <= ListItem(rewards_for_context[c], a)}

\* C1: every call of step leaves current_context as it was, and when it
\* returns, its observation is the one the preceding reset returned.
C1_StepKeepsContextAndObservation ==
    [][StepCalled =>
          /\ current_context' = current_context
          /\ reset_observation' = reset_observation
          /\ raised' = "none" =>
                /\ reset_observation # None
                /\ result' # None
                /\ Get(result').observation = Get(reset_observation)
                /\ observation' = reset_observation]_vars

\* C1 witness: a third step of one episode returned, after steps with
\* another arm, and still shows the observation of the reset.
C1_Witness ==
    /\ StepReturned
    /\ episode_steps >= 3
    /\ last_action = Some(2)
    /\ Get(result).observation = Get(reset_observation)
    /\ Get(current_context) = 1

\* C2: a step in context -1 pays 10 exactly for action 2 and less for the
\* other arms; a step in context 1 pays 10 exactly for action 0 and less
\* for the other arms.
C2_BestArmPerContext ==
    StepReturned =>
        LET c == Get(current_context)
            a == Get(last_action)
            r == Get(result).reward
        IN  /\ c \in Contexts
            /\ r <= 10
            /\ c = -1 => (r = 10 <=> a = 2)
            /\ c = 1 => (r = 10 <=> a = 0)
            /\ BestActions(-1) = {2}
            /\ BestActions(1) = {0}

\* C2 witness: the third arm was pulled in context -1 and paid 10.
C2_Witness ==
    /\ StepReturned
    /\ current_context = Some(-1)
    /\ last_action = Some(2)
    /\ Get(result).reward = 10

\* C3: the second arm (action 1) pays 0 in every context, whatever came
\* before, and is the best arm of no context.
C3_SecondArmPaysZero ==
    /\ (StepReturned /\ last_action = Some(1)) => Get(result).reward = 0
    /\ bandit = "built" =>
          \A c \in DOMAIN rewards_for_context : 1 \notin BestActions(c)

\* C3 witness: the second arm was pulled after earlier steps of the episode.
C3_Witness ==
    /\ StepReturned
    /\ last_action = Some(1)
    /\ episode_steps >= 2
    /\ Get(result).reward = 0

\* C4: the info of a step is regret = 10 - reward, one of 0, 10, 20, and it
\* is 0 exactly when the action is the best arm of the current context.
C4_Regret ==
    StepReturned =>
        LET c == Get(current_context)
            a == Get(last_action)
            r == Get(result)
        IN  /\ r.info.regret = 10 - r.reward
            /\ r.info.regret \in {0, 10, 20}
            /\ r.info.regret = 0 <=> a \in BestActions(c)

\* C4 witness: a step with regret 20 (the worst arm of the context).
C4_Witness ==
    /\ StepReturned
    /\ Get(result).info.regret = 20
    /\ Get(last_action) \notin BestActions(Get(current_context))

---------------------------------------------------------------------------
\* Properties of the AsyncActor cells

\* The invocations of actor a whose 'started' line is printed and whose
\* 'finished' line is not.
InFlight(a) == started[a] \ finished[a]

\* The list [from, from + 1, ..., from + n - 1]
Range(from, n) == [k \in 1 .. n |-> from + k - 1]

\* C5: on an actor created with max_concurrency = 3, at most 3 invocations
\* are started and not yet finished, in every state of every run.
C5_AtMostThreeInFlight ==
    \A a \in DOMAIN max_concurrency :
        max_concurrency[a] = 3 => Cardinality(InFlight(a)) <= 3

\* C5 witness: all 12 invocations are submitted to actor3, 0 has finished,
\* 1, 2 and 3 are in flight and the other eight wait in the queue.
C5_Witness ==
    /\ Len(refs3) = 12
    /\ started["actor3"] = {0, 1, 2, 3}
    /\ finished["actor3"] = {0}
    /\ Cardinality(InFlight("actor3")) = 3
    /\ Len(queue["actor3"]) = 8

\* C6: invocations of run_concurrent overlap: whenever an invocation of an
\* actor is in flight, another one is queued and the actor is below its
\* limit, the queued invocation can start.
C6_ConcurrentInvocations ==
    \A a \in DOMAIN max_concurrency :
        (/\ running[a] # {}
         /\ queue[a] # << >>
         /\ Cardinality(running[a]) < max_concurrency[a])
            => ENABLED ActorStart(a)

\* C6 witness: 'started 0' and 'started 10' are printed and neither
\* 'finished' line is.
C6_Witness ==
    /\ started["actor"] = {0, 10}
    /\ finished["actor"] = {}
    /\ Cardinality(running["actor"]) = 2

\* Index idx is submitted to, or started by, the first actor in this step.
SubmittedOrStartedNow(idx) ==
    \/ idx \in Submitted("actor")' /\ idx \notin Submitted("actor")
    \/ idx \in started'["actor"] /\ idx \notin started["actor"]

\* C7: for every i in 0..8, invocations i+1 and 10+(i+1) are submitted, and
\* start, only after invocation 10+i has finished.
C7_AwaitOrdersTheLoop ==
    [][\A k \in 0 .. (LoopCount - 2) :
          \A idx \in {k + 1, AwaitOffset + k + 1} :
              SubmittedOrStartedNow(idx)
                  => (AwaitOffset + k) \in finished["actor"]]_vars

\* C7 witness: round 1 has begun (1 and 11 have started) after 10 finished,
\* while the invocation 0 that was not awaited is still in flight.
C7_Witness ==
    /\ 10 \in finished["actor"]
    /\ InFlight("actor") = {0, 1, 11}

\* C8: every stored result is the index of the invocation its object id
\* belongs to, so the lists come out in submission order: ids gives
\* 0, 1, ..., the awaited values are 10, 11, ..., and the refs of actor3
\* give 0, 1, ..., 11.
C8_ResultsBySubmissionPosition ==
    /\ \A k \in 1 .. Len(ids) :
          ids[k] \in DOMAIN store => store[ids[k]] = k - 1
    /\ \A k \in 1 .. Len(values) : values[k] = 10 + k - 1
    /\ \A k \in 1 .. Len(refs3) :
          refs3[k] \in DOMAIN store => store[refs3[k]] = k - 1
    /\ printed_ids # None => Get(printed_ids) = Range(0, 10)
    /\ printed_values # None => Get(printed_values) = Range(10, 10)
    /\ result3 # None => Get(result3) = Range(0, 12)

\* C8 witness: both cells have run to their end and shown the three lists.
C8_Witness ==
    /\ ray_pc = "done"
    /\ printed_ids = Some(<<0, 1, 2, 3, 4, 5, 6, 7, 8, 9>>)
    /\ printed_values = Some(<<10, 11, 12, 13, 14, 15, 16, 17, 18, 19>>)
    /\ result3 = Some(<<0, 1, 2, 3, 4, 5, 6, 7, 8, 9, 10, 11>>)

---------------------------------------------------------------------------
\* Properties of run_with_pool

\* C9: run_with_pool(n) prints 0, 1, ..., n-1, each once and in ascending
\* order, however the elements were spread over the workers and in whatever
\* order the workers finished.
C9_PoolMapKeepsInputOrder ==
    /\ printed = Range(0, Len(printed))
    /\ pool_pc = "done" => printed = Range(0, pool_n)

\* C9 witness: four results printed in ascending order although the workers
\* delivered them in the order 1, 3, 2, 0.
C9_Witness ==
    /\ pool_pc = "done"
    /\ pool_n = 4
    /\ pool_completed = <<1, 3, 2, 0>>
    /\ printed = <<0, 1, 2, 3>>

---------------------------------------------------------------------------
\* Properties of nudge_dataset

\* C10: when nudge_dataset returns for n images and n labels, it returns
\* 5n images and 5n labels.
C10_FiveTimesBigger ==
    nudge_pc = "returned" =>
        /\ Len(X) = Len(Y)
        /\ Len(nudged_X) = 5 * Len(X)
        /\ Len(nudged_Y) = 5 * Len(Y)
        /\ Len(nudged_X) = Len(nudged_Y)

\* C10 witness: two images and two labels became ten of each.
C10_Witness ==
    /\ nudge_pc = "returned"
    /\ Len(X) = 2
    /\ Len(nudged_X) = 10
    /\ Len(nudged_Y) = 10
    /\ X[1] # X[2]

---------------------------------------------------------------------------
\* The image x moved by dr rows and dc columns: the pixel of row r, column
\* c goes to row r + dr, column c + dc; pixels that leave the image are
\* dropped and the places nothing moves to hold 0.  Row 0 is the top row.
Moved(x, dr, dc) ==
    [k \in Pixels |->
        LET r == (k - 1) \div Side
            c == (k - 1) % Side
        IN  IF (r - dr) \in 0 .. (Side - 1) /\ (c - dc) \in 0 .. (Side - 1)
            THEN x[Side * (r - dr) + (c - dc) + 1]
            ELSE 0]

MovedLeft(x) == Moved(x, 0, -1)
MovedRight(x) == Moved(x, 0, 1)
MovedDown(x) == Moved(x, 1, 0)
MovedUp(x) == Moved(x, -1, 0)

\* The copy of image k of X in block b of the returned array (block 0 holds
\* the originals, blocks 1..4 the copies made with kernels 1..4).
CopyOf(k, b) == nudged_X[b * Len(X) + k]

\* C11 as stated: the four copies of every image are the image moved by one
\* pixel to the left, to the right, down and up, in this order.
C11_LeftRightDownUp ==
    nudge_pc = "returned" =>
        \A k \in 1 .. Len(X) :
            /\ CopyOf(k, 1) = MovedLeft(X[k])
            /\ CopyOf(k, 2) = MovedRight(X[k])
            /\ CopyOf(k, 3) = MovedDown(X[k])
            /\ CopyOf(k, 4) = MovedUp(X[k])

\* C11 as amended: the returned array holds the images themselves and then,
\* for every image, its copies moved by one pixel up, to the left, to the
\* right and down, in this order: each of the four directions once.
C11_UpLeftRightDown ==
    nudge_pc = "returned" =>
        \A k \in 1 .. Len(X) :
            /\ CopyOf(k, 0) = X[k]
            /\ CopyOf(k, 1) = MovedUp(X[k])
            /\ CopyOf(k, 2) = MovedLeft(X[k])
            /\ CopyOf(k, 3) = MovedRight(X[k])
            /\ CopyOf(k, 4) = MovedDown(X[k])

\* C11 witness: a dataset whose first image has its only pixel in the top
\* left corner, so that it is pushed out by the moves up and to the left,
\* and whose second image has no zero pixel, so that a row or a column of
\* zeros shows in each of its copies.
C11_Witness ==
    /\ nudge_pc = "returned"
    /\ Len(X) = 2
    /\ X[1] = OneHot(0, 0, 16)
    /\ CopyOf(1, 1) = [k \in Pixels |-> 0]
    /\ CopyOf(1, 2) = [k \in Pixels |-> 0]
    /\ CopyOf(1, 3) = OneHot(0, 1, 16)
    /\ CopyOf(1, 4) = OneHot(1, 0, 16)
    /\ \A k \in Pixels : X[2][k] # 0
    /\ \A c \in 0 .. (Side - 1) : PixelAt(CopyOf(2, 1), Side - 1, c) = 0
    /\ PixelAt(CopyOf(2, 1), 0, 0) = PixelAt(X[2], 1, 0)

----------------------------------------------------------------------------
\* The trials whose resolved fcnet_hiddens is [a, b].
TrialsWith(a, b) ==
    {k \in DOMAIN trials : trials[k].fcnet_hiddens = <<a, b>>}

Elements(l) == {l[k] : k \in DOMAIN l}

\* C12: a tune.run that ran has one trial for every combination of a value of
\* the first grid_search with a value of the second, every combination exactly
\* once, so Len(grid1) * Len(grid2) trials (n * n for two lists of n values);
\* the lesson's lists [20, 40] and [20, 40] give exactly the four trials
\* [20,20], [20,40], [40,20], [40,40]; when tune.run returns, each of them
\* has run to its end.
C12_OneTrialPerCombination ==
    tune_session # None =>
        /\ Len(trials) = Len(grid1) * Len(grid2)
        /\ Len(grid1) = Len(grid2) => Len(trials) = Len(grid1) * Len(grid1)
        /\ \A a \in Elements(grid1), b \in Elements(grid2) :
               Cardinality(TrialsWith(a, b)) = 1
        /\ \A k \in DOMAIN trials :
               /\ trials[k].fcnet_hiddens[1] \in Elements(grid1)
               /\ trials[k].fcnet_hiddens[2] \in Elements(grid2)
        /\ (grid1 = <<20, 40>> /\ grid2 = <<20, 40>>) =>
               /\ Len(trials) = 4
               /\ {trials[k].fcnet_hiddens : k \in DOMAIN trials}
                      = {<<20, 20>>, <<20, 40>>, <<40, 20>>, <<40, 40>>}
        /\ tune_pc = "returned" =>
               \A k \in DOMAIN trials : trials[k].status = "TERMINATED"

C12_Witness ==
    /\ tune_pc = "returned"
    /\ grid1 = <<20, 40>>
    /\ grid2 = <<20, 40>>
    /\ Len(trials) = 4
    /\ \A k \in DOMAIN trials : trials[k].status = "TERMINATED"

----------------------------------------------------------------------------
\* A remote submission made after ray.shutdown() and before a new connection.
SubmissionAfterShutdown ==
    /\ ray_ops' = ray_ops + 1
    /\ ray_last_cell' \in {"normal", "await"}
    /\ ~ray_connected
    /\ ray_sessions > 0

\* C13: a some_task.remote() made when ray.shutdown() has ended the driver's
\* connection raises RayConnectionError: no task is submitted, nothing is
\* waited for, and the cell ends with the error and without a value.
C13_SubmissionAfterShutdownRaises ==
    [][SubmissionAfterShutdown =>
          /\ ray_raised' = "RayConnectionError"
          /\ tasks_submitted' = tasks_submitted
          /\ task_pending' = task_pending
          /\ task_store' = task_store
          /\ task_pc' = "idle"
          /\ task_ref' = None
          /\ ray_last_cell' = "normal" => normal_result' = None
          /\ ray_last_cell' = "await" => await_result' = None
          /\ ~ray_connected']_vars

C13_Witness ==
    /\ ray_last_cell = "await"
    /\ ray_raised = "RayConnectionError"
    /\ ~ray_connected
    /\ ray_sessions = 1
    /\ normal_result # None
    /\ await_result = None
    /\ tasks_submitted = 1
    /\ task_pc = "idle"

----------------------------------------------------------------------------
\* C14 as stated: the await and the normal Ray way evaluate to the same
\* result.
C14_SameResult ==
    (normal_result # None /\ await_result # None) =>
        await_result = normal_result

\* C14: `await some_task.remote()` evaluates to the task's return value, the
\* integer 1; the normal Ray way evaluates to the list [1], whose only
\* element is that value.
C14_AwaitYieldsTheValue ==
    /\ await_result # None => Get(await_result) = PyInt(1)
    /\ normal_result # None => Get(normal_result) = PyList(<<PyInt(1)>>)
    /\ (normal_result # None /\ await_result # None) =>
           Get(normal_result) = PyList(<<Get(await_result)>>)

C14_Witness ==
    /\ ray_last_cell = "await"
    /\ ray_raised = "none"
    /\ task_pc = "idle"
    /\ normal_result # None
    /\ await_result # None

----------------------------------------------------------------------------
\* A step that is a call of tune.run.
TuneRunCalled == ray_ops' = ray_ops + 1 /\ ray_last_cell' = "tune.run"

\* C15: tune.run called while Ray is not initialized connects to Ray itself
\* and runs its trials; with ray_auto_init=False and Ray not initialized it
\* ends with an error, runs nothing and leaves Ray uninitialized; when Ray is
\* initialized already the run uses the existing connection, whatever the
\* flag.
C15_TuneRunAndRayInit ==
    [][TuneRunCalled =>
          /\ (~ray_connected /\ ray_auto_init') =>
                 /\ ray_connected'
                 /\ ray_sessions' = ray_sessions + 1
                 /\ tune_inited_ray'
                 /\ tune_session' = Some(ray_sessions')
                 /\ tune_pc' = "running"
                 /\ ray_raised' = "none"
          /\ (~ray_connected /\ ~ray_auto_init') =>
                 /\ tune_pc' = "raised"
                 /\ ray_raised' # "none"
                 /\ trials' = << >>
                 /\ tune_session' = None
                 /\ ~ray_connected'
                 /\ ray_sessions' = ray_sessions
          /\ ray_connected =>
                 /\ ray_connected'
                 /\ ray_sessions' = ray_sessions
                 /\ ~tune_inited_ray'
                 /\ tune_session' = Some(ray_sessions)
                 /\ tune_pc' = "running"
                 /\ ray_raised' = "none"]_vars

C15_Witness ==
    /\ ray_last_cell = "tune.run"
    /\ ~ray_auto_init
    /\ tune_pc = "raised"
    /\ ray_raised = "Error"
    /\ ~ray_connected
    /\ ray_sessions = 1
    /\ tune_session = None

----------------------------------------------------------------------------
\* A call of the Exercise 1 step on a bandit that was reset.
Exercise1StepCalled ==
    /\ last_call' = "exercise1.step"
    /\ ncalls' = ncalls + 1
    /\ current_context # None

\* C16 as stated: a call of the Exercise 1 step on a reset bandit returns;
\* the new context c is one of -1, 1, the returned observation is (-c, c),
\* the returned reward is the table's reward for the action taken (in the
\* context the action was taken in, or in the new one), done is True and the
\* regret is 10 minus that reward.
C16_Exercise1StepReturnsRewardOfAction ==
    [][Exercise1StepCalled =>
          /\ raised' = "none"
          /\ result' # None
          /\ current_context' # None
          /\ Get(current_context') \in Contexts
          /\ Get(result').observation = ObservationOf(Get(current_context'))
          /\ Get(result').reward \in
                 {ListItem(rewards_for_context[Get(current_context)],
                           Get(last_action')),
                  ListItem(rewards_for_context[Get(current_context')],
                           Get(last_action'))}
          /\ Get(result').done = TRUE
          /\ Get(result').info.regret = RegretBase - Get(result').reward]_vars

----------------------------------------------------------------------------
\* A call of reset or of step.
ResetOrStepCalled == last_call' \in {"reset", "step"} /\ ncalls' = ncalls + 1

\* C18: a SimpleContextualBandit always has the reward table
\* {-1: [-10, 0, 10], 1: [10, 0, -10]}, the action space Discrete(3) and the
\* observation space Box(-1, 1, (2,)); no call of reset or step changes any
\* of the three, and of the object's fields a reset changes at most
\* current_context.
C18_ResetAndStepKeepTheTables ==
    /\ [](bandit = "built" =>
             /\ rewards_for_context
                    = (-1 :> <<-10, 0, 10>>) @@ (1 :> <<10, 0, -10>>)
             /\ action_space = 3
             /\ observation_space
                    = Some([low |-> -1, high |-> 1, shape |-> <<2>>]))
    /\ [][ResetOrStepCalled =>
             /\ rewards_for_context' = rewards_for_context
             /\ action_space' = action_space
             /\ observation_space' = observation_space
             /\ bandit' = bandit
             /\ last_call' = "step" => current_context' = current_context]_vars

C18_Witness ==
    /\ last_call = "step"
    /\ raised = "none"
    /\ episode_steps >= 2
    /\ ncalls >= 5
    /\ reset_observation # None
    /\ rewards_for_context = (-1 :> <<-10, 0, 10>>) @@ (1 :> <<10, 0, -10>>)
    /\ action_space = 3

=============================================================================
